---- MODULE Spec2Model ----
(***************************************************************************)
(* Model of src/KubaGame.py: the Kuba rules engine (class KubaGame and     *)
(* class Player).  One action per public operation (make_move, pop_error); *)
(* the private helpers are operators computed as the code computes them.   *)
(*                                                                         *)
(* Python values are represented as follows:                               *)
(*   - a str used as a direction is the sequence of its characters, so     *)
(*     that `direction not in "FBLR"` is the substring test it is;         *)
(*   - an error message is the sequence of the parts it is concatenated    *)
(*     from ("Cant push because: " + m is <<"Cant push because: ">> \o m); *)
(*   - a list is a sequence; Python index i is TLA+ index i+1;             *)
(*   - a Player object is its name; None is the string "None";             *)
(*   - the value returned by make_move is "True" or "False", and           *)
(*     "IndexError" when the call raises instead of returning.             *)
(*                                                                         *)
(* The caller is the loop of play_game: it constructs the game as line 508 *)
(* does, calls make_move with whatever was typed, and pops the error       *)
(* message after a call that returned False (line 538) before it calls     *)
(* again.  An exception leaving make_move is not caught and ends the       *)
(* program.  Unlike play_game the caller goes on calling after a winner    *)
(* is set, as a caller of the class may.                                   *)
(***************************************************************************)
EXTENDS Integers, Sequences, FiniteSets, TLC

VARIABLES
    board,           \* KubaGame._board: 7 rows of 7 cells
    board_history,   \* KubaGame._board_history
    current_turn,    \* KubaGame._current_turn (a player name or None)
    winner,          \* KubaGame._winner (a player name or None)
    captured,        \* Player._captured of each player
    error_messages,  \* KubaGame._error_messages
    ret,             \* outcome of the last make_move call
    mover,           \* the player whose make_move call last returned True
    true_count,      \* number of make_move calls that returned True
    scenario,        \* the opening the caller plays before exploring
    pc,              \* number of calls of the opening made so far
    push_list,       \* _push_right taken alone: its argument a_list
    push_position,   \* _push_right taken alone: its argument position
    push_result      \* _push_right taken alone: <<>>, then <<its result>>

vars == <<board, board_history, current_turn, winner, captured,
          error_messages, ret, mover, true_count, scenario, pc,
          push_list, push_position, push_result>>

push_vars == <<push_list, push_position, push_result>>

game == <<board, board_history, current_turn, captured>>

None == "None"

\* ------------------------------------------------------------------------
\* Bounds of the exploration
\* ------------------------------------------------------------------------
MaxMoves == 1   \* committed moves explored after the opening

\* ------------------------------------------------------------------------
\* Program constants
\* ------------------------------------------------------------------------
Size == 7        \* the board is 7 x 7
Last == 6        \* the last row / column index
RedsToWin == 7
OpponentsToWin == 8

PlayerA == "PlayerA"
PlayerB == "PlayerB"
player_a_info == <<PlayerA, "B">>
player_b_info == <<PlayerB, "W">>

\* Player.get_name / Player.get_color of the two constructed players
get_player_a == player_a_info[1]
get_player_b == player_b_info[1]
get_players == <<get_player_a, get_player_b>>   \* dict, in insertion order
get_color(playername) ==
    IF playername = player_a_info[1] THEN player_a_info[2] ELSE player_b_info[2]

InitialBoard ==
    << <<"W","W","X","X","X","B","B">>,
       <<"W","W","X","R","X","B","B">>,
       <<"X","X","R","R","R","X","X">>,
       <<"X","R","R","R","R","R","X">>,
       <<"X","X","R","R","R","X","X">>,
       <<"B","B","X","R","X","W","W">>,
       <<"B","B","X","X","X","W","W">> >>

\* ------------------------------------------------------------------------
\* Python list and str primitives
\* ------------------------------------------------------------------------
\* a line left as it is where the code reverses it
reverse_skipped(s) == s

\* list.reverse()
Reverse(s) == [i \in 1..Len(s) |-> s[Len(s) + 1 - i]]

\* list.pop(index), the remaining list (index is the Python index)
ListPop(s, index) == SubSeq(s, 1, index) \o SubSeq(s, index + 2, Len(s))

\* list.insert(position, x)
ListInsert(s, position, x) ==
    SubSeq(s, 1, position) \o <<x>> \o SubSeq(s, position + 1, Len(s))

\* s[k:] and s[:k]
SliceFrom(s, k) == SubSeq(s, k + 1, Len(s))
SliceTo(s, k) == SubSeq(s, 1, k)

\* x in list
Contains(s, x) == \E i \in 1..Len(s) : s[i] = x

\* d in s, for two strs: d occurs in s as a substring
StrIn(d, s) ==
    \E i \in 0..(Len(s) - Len(d)) : SubSeq(s, i + 1, i + Len(d)) = d

FBLR == <<"F", "B", "L", "R">>

\* ------------------------------------------------------------------------
\* Player
\* ------------------------------------------------------------------------
get_captured_count(cap, color) ==
    Cardinality({i \in 1..Len(cap) : cap[i] = color})

\* ------------------------------------------------------------------------
\* Board accessors
\* ------------------------------------------------------------------------
get_marble(coordinates) == board[coordinates[1] + 1][coordinates[2] + 1]

get_row(row_index) == board[row_index + 1]

get_column(column_index) == [i \in 1..Len(board) |-> board[i][column_index + 1]]

replace_column(column_index, column, b) ==
    [i \in 1..Len(b) |-> [b[i] EXCEPT ![column_index + 1] = column[i]]]

replace_row(row_index, row, b) == [b EXCEPT ![row_index + 1] = row]

copy_board(b) == [i \in 1..Len(b) |-> b[i]]

is_same_board(board_1, board_2) ==
    \A index \in 1..Len(board_1) : board_1[index] = board_2[index]

\* ------------------------------------------------------------------------
\* Error messages
\* ------------------------------------------------------------------------
MsgDirection == <<"Not a valid direction: F,B,L,R">>
MsgNoPlayer  == <<"Player doesn't exist!">>
MsgWon(name) == <<"A player has already won: ", name>>
MsgRange     == <<"Coordinates are not in range!">>
MsgTurn(name) == <<"Not your turn. Current turn: ", name>>
MsgMarble    == <<"Not your marble!">>
MsgOwn       == <<"You cannot capture your own marble!">>
MsgBlocked   == <<"Cant push from this direction!">>
MsgCircular  == <<"Cannot make a circular move!">>
MsgCantPush(m) == <<"Cant push because: ">> \o m

\* _document_error: the stack after the push
document_error(errs, message) == Append(errs, message)

\* ------------------------------------------------------------------------
\* _is_valid_push: the result is [ret, errs], ret being "True", "False" or
\* "None" (no branch of the if-chain on direction was taken), errs the
\* error stack afterwards.
\* ------------------------------------------------------------------------
\* helper taking the slice before the origin whatever the direction
helper_slice_before(coordinates, player_marble, errs, coord_index, extreme_index, immediate, extreme) ==
    LET row_or_col == IF coord_index = 0
                      THEN get_column(coordinates[2])
                      ELSE get_row(coordinates[1])
        slice == SliceTo(row_or_col, coordinates[coord_index + 1])
    IN  IF player_marble = get_marble(extreme) /\ ~Contains(slice, "X")
        THEN [ret |-> "False", errs |-> document_error(errs, MsgOwn)]
        ELSE IF coordinates[coord_index + 1] = extreme_index
        THEN [ret |-> "True", errs |-> errs]
        ELSE IF get_marble(immediate) = "X"
        THEN [ret |-> "True", errs |-> errs]
        ELSE [ret |-> "False", errs |-> document_error(errs, MsgBlocked)]

\* helper without the test of the cell behind the origin
helper_unblocked(coordinates, player_marble, errs, coord_index, extreme_index, immediate, extreme) ==
    LET row_or_col == IF coord_index = 0
                      THEN get_column(coordinates[2])
                      ELSE get_row(coordinates[1])
        slice == IF extreme_index < coordinates[coord_index + 1]
                 THEN SliceFrom(row_or_col, coordinates[coord_index + 1])
                 ELSE SliceTo(row_or_col, coordinates[coord_index + 1])
    IN  IF player_marble = get_marble(extreme) /\ ~Contains(slice, "X")
        THEN [ret |-> "False", errs |-> document_error(errs, MsgOwn)]
        ELSE [ret |-> "True", errs |-> errs]

\* helper without the test of lines 255-257
helper_no_own_check(coordinates, player_marble, errs, coord_index, extreme_index, immediate, extreme) ==
    IF coordinates[coord_index + 1] = extreme_index
    THEN [ret |-> "True", errs |-> errs]
    ELSE IF get_marble(immediate) = "X"
    THEN [ret |-> "True", errs |-> errs]
    ELSE [ret |-> "False", errs |-> document_error(errs, MsgBlocked)]

\* helper of _is_valid_push
helper(coordinates, player_marble, errs, coord_index, extreme_index, immediate, extreme) ==
    LET row_or_col == IF coord_index = 0
                      THEN get_column(coordinates[2])
                      ELSE get_row(coordinates[1])
        slice == IF extreme_index < coordinates[coord_index + 1]
                 THEN SliceFrom(row_or_col, coordinates[coord_index + 1])
                 ELSE SliceTo(row_or_col, coordinates[coord_index + 1])
    IN  IF player_marble = get_marble(extreme) /\ ~Contains(slice, "X")
        THEN [ret |-> "False", errs |-> document_error(errs, MsgOwn)]
        ELSE IF coordinates[coord_index + 1] = extreme_index
        THEN [ret |-> "True", errs |-> errs]
        ELSE IF get_marble(immediate) = "X"
        THEN [ret |-> "True", errs |-> errs]
        ELSE [ret |-> "False", errs |-> document_error(errs, MsgBlocked)]

is_valid_push(coordinates, direction, player_marble, errs) ==
    LET right      == <<coordinates[1], coordinates[2] + 1>>
        left       == <<coordinates[1], coordinates[2] - 1>>
        above      == <<coordinates[1] - 1, coordinates[2]>>
        below      == <<coordinates[1] + 1, coordinates[2]>>
        leftmost   == <<coordinates[1], 0>>
        rightmost  == <<coordinates[1], Last>>
        topmost    == <<0, coordinates[2]>>
        bottommost == <<Last, coordinates[2]>>
    IN  IF direction = <<"L">>
        THEN helper(coordinates, player_marble, errs, 1, Last, right, leftmost)
        ELSE IF direction = <<"R">>
        THEN helper(coordinates, player_marble, errs, 1, 0, left, rightmost)
        ELSE IF direction = <<"B">>
        THEN helper(coordinates, player_marble, errs, 0, 0, above, bottommost)
        ELSE IF direction = <<"F">>
        THEN helper(coordinates, player_marble, errs, 0, Last, below, topmost)
        ELSE [ret |-> "None", errs |-> errs]

\* ------------------------------------------------------------------------
\* _move_is_valid, evaluated with winner w (the winner after the win check
\* of make_move) and error stack errs.  The result is [ret, errs]; ret is
\* "IndexError" when pop_error is called on an empty stack.
\* ------------------------------------------------------------------------
\* the turn test with player a taken to start the game
not_player_turn_a_starts(playername) ==
    playername # (IF current_turn = None THEN get_player_a ELSE current_turn)

\* not_player_turn of _move_is_valid
not_player_turn(playername) ==
    current_turn # None /\ playername # current_turn

\* the validator without its check of the winner
already_won_unchecked(w) == FALSE

\* already_won of _move_is_valid
already_won(w) == w # None

move_is_valid(playername, coordinates, direction, w, errs) ==
    IF ~StrIn(direction, FBLR)
    THEN [ret |-> "False", errs |-> document_error(errs, MsgDirection)]
    ELSE IF ~Contains(get_players, playername)
    THEN [ret |-> "False", errs |-> document_error(errs, MsgNoPlayer)]
    ELSE IF already_won(w)
    THEN [ret |-> "False", errs |-> document_error(errs, MsgWon(w))]
    ELSE IF ~(0 <= coordinates[1] /\ coordinates[1] <= Last
              /\ 0 <= coordinates[2] /\ coordinates[2] <= Last)
    THEN [ret |-> "False", errs |-> document_error(errs, MsgRange)]
    ELSE IF not_player_turn(playername)
    THEN [ret |-> "False", errs |-> document_error(errs, MsgTurn(current_turn))]
    ELSE IF get_marble(coordinates) # get_color(playername)
    THEN [ret |-> "False", errs |-> document_error(errs, MsgMarble)]
    ELSE LET push == is_valid_push(coordinates, direction, get_color(playername), errs)
         IN  IF push.ret # "True"
             THEN IF push.errs = <<>>
                  THEN [ret |-> "IndexError", errs |-> push.errs]
                  ELSE [ret |-> "False",
                        errs |-> document_error(
                                   SubSeq(push.errs, 1, Len(push.errs) - 1),
                                   MsgCantPush(push.errs[Len(push.errs)]))]
             ELSE [ret |-> "True", errs |-> errs]

\* ------------------------------------------------------------------------
\* _check_win_conditions: the winner after the check
\* ------------------------------------------------------------------------
\* the win test with the threshold of the reds taken for that of the colours
wins_eight_reds(cap) ==
    \/ get_captured_count(cap, "R") = OpponentsToWin
    \/ get_captured_count(cap, "B") = OpponentsToWin
    \/ get_captured_count(cap, "W") = OpponentsToWin

\* the test of one player in _check_win_conditions
wins(cap) ==
    \/ get_captured_count(cap, "R") = RedsToWin
    \/ get_captured_count(cap, "B") = OpponentsToWin
    \/ get_captured_count(cap, "W") = OpponentsToWin

\* _check_win_conditions that sets no winner
check_win_conditions_skipped == winner

\* _check_win_conditions: the winner after the loop over the players
check_win_conditions ==
    IF wins(captured[get_players[1]]) THEN get_players[1]
    ELSE IF wins(captured[get_players[2]]) THEN get_players[2]
    ELSE winner

\* ------------------------------------------------------------------------
\* _push_right: [list, captured], the list after the push and the value
\* returned
\* ------------------------------------------------------------------------
\* _push_right that inserts the "X" without removing the one it found
push_right_no_pop(position, a_list) ==
    LET found == {index \in position..(Len(a_list) - 1) : a_list[index + 1] = "X"}
    IN  IF found # {}
        THEN [list |-> ListInsert(a_list, position, "X"), captured |-> None]
        ELSE LET inserted == ListInsert(a_list, position, "X")
             IN  [list |-> SubSeq(inserted, 1, Len(inserted) - 1),
                  captured |-> inserted[Len(inserted)]]

\* _push_right that removes the last "X" after the position, not the first
push_right_last_empty(position, a_list) ==
    LET found == {index \in position..(Len(a_list) - 1) : a_list[index + 1] = "X"}
    IN  IF found # {}
        THEN LET index == CHOOSE i \in found : \A j \in found : i >= j
             IN  [list |-> ListInsert(ListPop(a_list, index), position, "X"),
                  captured |-> None]
        ELSE LET inserted == ListInsert(a_list, position, "X")
             IN  [list |-> SubSeq(inserted, 1, Len(inserted) - 1),
                  captured |-> inserted[Len(inserted)]]

\* _push_right: the list after the push and the element pushed out of it
push_right(position, a_list) ==
    LET found == {index \in position..(Len(a_list) - 1) : a_list[index + 1] = "X"}
    IN  IF found # {}
        THEN LET index == CHOOSE i \in found : \A j \in found : i <= j
             IN  [list |-> ListInsert(ListPop(a_list, index), position, "X"),
                  captured |-> None]
        ELSE LET inserted == ListInsert(a_list, position, "X")
             IN  [list |-> SubSeq(inserted, 1, Len(inserted) - 1),
                  captured |-> inserted[Len(inserted)]]

\* _set_next_turn that always hands the turn to player a
set_next_turn_always_a(current_player) == get_player_a

\* _set_next_turn that leaves the turn with the player who moved
set_next_turn_keeps_turn(current_player) == current_player

\* _set_next_turn: the turn after current_player moved
set_next_turn(current_player) ==
    IF current_player = get_player_a THEN get_player_b ELSE get_player_a

\* The simulation of make_move on a copy of the board: [board, captured]
simulate(coordinates, direction) ==
    LET board_copy == copy_board(board)
    IN  IF direction = <<"R">>
        THEN LET p == push_right(coordinates[2], get_row(coordinates[1]))
             IN  [board |-> replace_row(coordinates[1], p.list, board_copy),
                  captured |-> p.captured]
        ELSE IF direction = <<"B">>
        THEN LET p == push_right(coordinates[1], get_column(coordinates[2]))
             IN  [board |-> replace_column(coordinates[2], p.list, board_copy),
                  captured |-> p.captured]
        ELSE IF direction = <<"L">>
        THEN LET p == push_right(Last - coordinates[2], Reverse(get_row(coordinates[1])))
             IN  [board |-> replace_row(coordinates[1], Reverse(p.list), board_copy),
                  captured |-> p.captured]
        ELSE IF direction = <<"F">>
        THEN LET p == push_right(Last - coordinates[1], Reverse(get_column(coordinates[2])))
             IN  [board |-> replace_column(coordinates[2], Reverse(p.list), board_copy),
                  captured |-> p.captured]
        ELSE [board |-> board_copy, captured |-> None]

\* ------------------------------------------------------------------------
\* make_move: the state after the call and its outcome
\* ------------------------------------------------------------------------
\* the test made against the last board instead of the one before it
circular_last_board(history, board_copy) ==
    /\ Len(history) > 1
    /\ is_same_board(history[Len(history)], board_copy)

\* the test of lines 483-484: the copy repeats the board of two moves ago
circular(history, board_copy) ==
    /\ Len(history) > 1
    /\ is_same_board(history[Len(history) - 1], board_copy)

\* the history replaced by the new board instead of extended by it
append_history_replaces(history, board_copy) == <<board_copy>>

\* the new board put in front of the history
append_history_prepends(history, board_copy) == <<board_copy>> \o history

\* history.append(board_copy)
append_history(history, board_copy) == Append(history, board_copy)

\* a `return False` that also passes the turn on
rejected_passes_turn(w, errs) ==
    [board |-> board, board_history |-> board_history,
     current_turn |-> IF current_turn = None THEN None
                      ELSE set_next_turn(current_turn),
     winner |-> w, captured |-> captured,
     error_messages |-> errs, ret |-> "False"]

\* the state left by a `return False` of make_move, the winner being w and
\* the error stack errs
rejected(w, errs) ==
    [board |-> board, board_history |-> board_history,
     current_turn |-> current_turn, winner |-> w, captured |-> captured,
     error_messages |-> errs, ret |-> "False"]

\* lines 488-494 with the ejected marble handed to the other player
committed_credits_opponent(playername, w, errs, sim) ==
    [board |-> sim.board,
     board_history |-> append_history(board_history, sim.board),
     current_turn |-> set_next_turn(playername),
     winner |-> w,
     captured |-> IF sim.captured # None
                  THEN [captured EXCEPT ![set_next_turn(playername)] =
                                            Append(@, sim.captured)]
                  ELSE captured,
     error_messages |-> errs,
     ret |-> "True"]

\* lines 488-494 without the capture of line 490
committed_forgets_capture(playername, w, errs, sim) ==
    [board |-> sim.board,
     board_history |-> append_history(board_history, sim.board),
     current_turn |-> set_next_turn(playername),
     winner |-> w,
     captured |-> captured,
     error_messages |-> errs,
     ret |-> "True"]

\* the state left by lines 488-494
committed(playername, w, errs, sim) ==
    [board |-> sim.board,
     board_history |-> append_history(board_history, sim.board),
     current_turn |-> set_next_turn(playername),
     winner |-> w,
     captured |-> IF sim.captured # None
                  THEN [captured EXCEPT ![playername] = Append(@, sim.captured)]
                  ELSE captured,
     error_messages |-> errs,
     ret |-> "True"]

make_move(playername, coordinates, direction) ==
    LET w == check_win_conditions
        valid == move_is_valid(playername, coordinates, direction, w, error_messages)
        sim == simulate(coordinates, direction)
    IN  IF valid.ret = "IndexError"
        THEN [rejected(w, valid.errs) EXCEPT !.ret = "IndexError"]
        ELSE IF valid.ret # "True"
        THEN rejected(w, valid.errs)
        ELSE IF circular(board_history, sim.board)
        THEN rejected(w, document_error(valid.errs, MsgCircular))
        ELSE committed(playername, w, valid.errs, sim)

\* ------------------------------------------------------------------------
\* The caller's inputs
\* ------------------------------------------------------------------------
Names == {PlayerA, PlayerB, "Nobody"}

InRange == (0..Last) \X (0..Last)
OutOfRange == {<<Size, 3>>, <<0, -1>>}
Coordinates == InRange \cup OutOfRange

FourDirections == {<<"L">>, <<"R">>, <<"F">>, <<"B">>}
OtherDirections ==
    {<<>>, <<"F", "B">>, <<"B", "L">>, <<"L", "R">>, FBLR, <<"Z">>, <<"R", "L">>}
Directions == FourDirections \cup OtherDirections

\* The calls explored
Calls == Names \X Coordinates \X Directions

\* Openings: sequences of calls the caller makes on the new game before it
\* makes any call.  Every call of an opening returns True.
Black == PlayerA
White == PlayerB

RepeatOpening ==
    << <<Black, <<0, 6>>, <<"L">> >>, <<White, <<0, 0>>, <<"R">> >>,
       <<Black, <<0, 5>>, <<"L">> >>, <<White, <<0, 1>>, <<"R">> >> >>

EdgeOpening ==
    << <<White, <<0, 0>>, <<"B">> >>, <<Black, <<6, 0>>, <<"R">> >>,
       <<White, <<1, 0>>, <<"B">> >>, <<Black, <<6, 2>>, <<"L">> >>,
       <<White, <<2, 0>>, <<"B">> >>, <<Black, <<6, 0>>, <<"R">> >>,
       <<White, <<6, 6>>, <<"F">> >>, <<Black, <<6, 2>>, <<"L">> >> >>

WhiteLine ==
    << <<0, 0, "B">>, <<1, 0, "B">>,
       <<3, 0, "R">>, <<3, 1, "R">>, <<3, 2, "R">>, <<3, 3, "R">>,
       <<3, 4, "R">>, <<3, 5, "R">>,
       <<2, 0, "R">>, <<2, 1, "R">>, <<2, 2, "R">>, <<2, 3, "R">>,
       <<2, 4, "R">> >>

WinOpening ==
    [i \in 1..(2 * Len(WhiteLine) - 1) |->
        IF i % 2 = 1
        THEN LET m == WhiteLine[(i + 1) \div 2]
             IN  <<White, <<m[1], m[2]>>, <<m[3]>> >>
        ELSE IF i % 4 = 2
        THEN <<Black, <<6, 0>>, <<"R">> >>
        ELSE <<Black, <<6, 2>>, <<"L">> >>]

\* White captures the eight Black marbles
CaptureOpening ==
    << <<White, <<6, 5>>, <<"F">> >>, <<Black, <<0, 5>>, <<"B">> >>,
       <<White, <<5, 5>>, <<"F">> >>, <<Black, <<6, 0>>, <<"F">> >>,
       <<White, <<4, 5>>, <<"F">> >>, <<Black, <<5, 0>>, <<"F">> >>,
       <<White, <<3, 5>>, <<"L">> >>, <<Black, <<5, 1>>, <<"L">> >>,
       <<White, <<2, 5>>, <<"F">> >>, <<Black, <<5, 0>>, <<"F">> >>,
       <<White, <<1, 5>>, <<"R">> >>, <<Black, <<6, 1>>, <<"R">> >>,
       <<White, <<1, 6>>, <<"F">> >>, <<Black, <<6, 2>>, <<"R">> >>,
       <<White, <<3, 4>>, <<"L">> >>, <<Black, <<4, 0>>, <<"F">> >>,
       <<White, <<3, 3>>, <<"L">> >>, <<Black, <<6, 3>>, <<"R">> >>,
       <<White, <<5, 6>>, <<"L">> >>, <<Black, <<6, 4>>, <<"R">> >>,
       <<White, <<5, 5>>, <<"B">> >> >>

Scenarios == {"start", "repeat", "edge", "win", "capture"}

Opening(sc) ==
    IF sc = "repeat" THEN RepeatOpening
    ELSE IF sc = "edge" THEN EdgeOpening
    ELSE IF sc = "win" THEN WinOpening
    ELSE IF sc = "capture" THEN CaptureOpening
    ELSE <<>>

\* ------------------------------------------------------------------------
\* Initial state: KubaGame.__init__ and Player.__init__
\* ------------------------------------------------------------------------
Init ==
    /\ board = InitialBoard
    /\ board_history = <<>>
    /\ current_turn = None
    /\ winner = None
    /\ captured = [n \in {PlayerA, PlayerB} |-> <<>>]
    /\ error_messages = <<>>
    /\ ret = None
    /\ mover = None
    /\ true_count = 0
    /\ scenario \in Scenarios
    /\ pc = 0
    /\ push_list = <<>>
    /\ push_position = 0
    /\ push_result = <<>>

\* ------------------------------------------------------------------------
\* Actions
\* ------------------------------------------------------------------------
\* The caller can call make_move: the last error was popped and no
\* exception ended the program
CallReady == error_messages = <<>> /\ ret # "IndexError"

\* A call make_move(playername, coordinates, direction)
MakeMove(playername, coordinates, direction) ==
    /\ CallReady
    /\ \E r \in {make_move(playername, coordinates, direction)} :
        /\ r.ret = "True" => true_count < Len(Opening(scenario)) + MaxMoves
        /\ board' = r.board
        /\ board_history' = r.board_history
        /\ current_turn' = r.current_turn
        /\ winner' = r.winner
        /\ captured' = r.captured
        /\ error_messages' = r.error_messages
        /\ ret' = r.ret
        /\ mover' = IF r.ret = "True" THEN playername ELSE mover
        /\ true_count' = IF r.ret = "True" THEN true_count + 1 ELSE true_count
    /\ UNCHANGED push_vars

\* The caller plays the next call of the opening
PlayOpening ==
    /\ pc < Len(Opening(scenario))
    /\ LET call == Opening(scenario)[pc + 1]
       IN  MakeMove(call[1], call[2], call[3])
    /\ pc' = pc + 1
    /\ UNCHANGED scenario

\* The caller makes any call
Call ==
    /\ pc = Len(Opening(scenario))
    /\ \E call \in Calls : MakeMove(call[1], call[2], call[3])
    /\ UNCHANGED <<scenario, pc>>

\* pop_error, after a call that returned False
PopError ==
    /\ error_messages # <<>>
    /\ error_messages' = SubSeq(error_messages, 1, Len(error_messages) - 1)
    /\ UNCHANGED <<board, board_history, current_turn, winner, captured,
                   ret, mover, true_count, scenario, pc>>
    /\ UNCHANGED push_vars

Next == PlayOpening \/ Call \/ PopError

Spec == Init /\ [][Next]_vars

\* ------------------------------------------------------------------------
\* _push_right taken alone: called once on any line of 7 cells at any
\* position a coordinate in range gives
\* ------------------------------------------------------------------------
Cells == {"X", "W", "B", "R"}

InitPush ==
    /\ board = InitialBoard
    /\ board_history = <<>>
    /\ current_turn = None
    /\ winner = None
    /\ captured = [n \in {PlayerA, PlayerB} |-> <<>>]
    /\ error_messages = <<>>
    /\ ret = None
    /\ mover = None
    /\ true_count = 0
    /\ scenario = "start"
    /\ pc = 0
    /\ push_list \in [1..Size -> Cells]
    /\ push_position \in 0..Last
    /\ push_result = <<>>

PushRight ==
    /\ push_result = <<>>
    /\ push_result' = <<push_right(push_position, push_list)>>
    /\ UNCHANGED <<board, board_history, current_turn, winner, captured,
                   error_messages, ret, mover, true_count, scenario, pc,
                   push_list, push_position>>

NextPush == PushRight

SpecPush == InitPush /\ [][NextPush]_vars

\* ------------------------------------------------------------------------
\* The rules as the claims state them
\* ------------------------------------------------------------------------
Players == {PlayerA, PlayerB}

Other(p) == IF p = PlayerA THEN PlayerB ELSE PlayerA

Top(errs) == errs[Len(errs)]

\* the cell at the far end of the line in the push direction
FarEnd(c, d) ==
    IF d = <<"L">> THEN <<c[1], 0>>
    ELSE IF d = <<"R">> THEN <<c[1], Last>>
    ELSE IF d = <<"F">> THEN <<0, c[2]>>
    ELSE <<Last, c[2]>>

\* the cell next to the origin on the side opposite the push direction
Behind(c, d) ==
    IF d = <<"L">> THEN <<c[1], c[2] + 1>>
    ELSE IF d = <<"R">> THEN <<c[1], c[2] - 1>>
    ELSE IF d = <<"F">> THEN <<c[1] + 1, c[2]>>
    ELSE <<c[1] - 1, c[2]>>

\* the origin is on the edge the push starts from
OnStartingEdge(c, d) ==
    IF d = <<"L">> THEN c[2] = Last
    ELSE IF d = <<"R">> THEN c[2] = 0
    ELSE IF d = <<"F">> THEN c[1] = Last
    ELSE c[1] = 0

\* the cells from the origin to the far end
Segment(c, d) ==
    IF d = <<"L">> THEN {<<c[1], k>> : k \in 0..c[2]}
    ELSE IF d = <<"R">> THEN {<<c[1], k>> : k \in c[2]..Last}
    ELSE IF d = <<"F">> THEN {<<k, c[2]>> : k \in 0..c[1]}
    ELSE {<<k, c[2]>> : k \in c[1]..Last}

SegmentHasEmpty(c, d) == \E x \in Segment(c, d) : get_marble(x) = "X"

\* the push would eject a marble of the mover p
EjectsOwn(p, c, d) ==
    get_marble(FarEnd(c, d)) = get_color(p) /\ ~SegmentHasEmpty(c, d)

\* checks 1 to 6 of the validator pass for a call made now
PassesChecks1to6(p, c, d) ==
    /\ d \in FourDirections
    /\ p \in Players
    /\ check_win_conditions = None
    /\ c \in InRange
    /\ current_turn = None \/ current_turn = p
    /\ get_marble(c) = get_color(p)

\* p has captured 7 neutral marbles or 8 marbles of the opponent
ReachedWin(p) ==
    \/ get_captured_count(captured[p], "R") = 7
    \/ get_captured_count(captured[p], get_color(Other(p))) = 8

\* ------------------------------------------------------------------------
\* Claims.  A claim about every call is stated of the calls the caller can
\* make: in the states where CallReady holds.
\* ------------------------------------------------------------------------

\* C1: turns alternate strictly.  After a make_move by P that returned True
\* the current turn is the other player; a make_move by the player who
\* committed the last move returns False; a call that returns True is never
\* made by the player who committed the last move.
C1_TurnsAlternate ==
    /\ mover # None => current_turn = Other(mover)
    /\ CallReady => \A p \in Names, c \in Coordinates, d \in Directions :
          LET r == make_move(p, c, d)
          IN  /\ p = mover => r.ret = "False"
              /\ r.ret = "True" => p \in Players /\ r.current_turn = Other(p)

W_C1_OutOfTurnRejected ==
    /\ mover # None
    /\ true_count >= 2
    /\ ret = "False"
    /\ error_messages = <<MsgTurn(Other(mover))>>

\* C2: a make_move that returns False leaves the live board, the history,
\* the turn pointer and both captured lists as they were before the call.
C2_RejectedChangesNothing == [][ret' = "False" => UNCHANGED game]_vars

W_C2_RejectedAfterMoves ==
    /\ ret = "False"
    /\ true_count >= 2
    /\ error_messages # <<>>
    /\ Top(error_messages) \in {MsgCircular, MsgCantPush(MsgBlocked)}

\* C3: a make_move whose simulated board equals the snapshot of two
\* committed moves ago returns False with the circular-move message, and no
\* snapshot of the history equals the snapshot two places before it.
C3_NoRepetition ==
    /\ \A k \in 3..Len(board_history) : board_history[k] # board_history[k - 2]
    /\ CallReady => \A p \in Names, c \in Coordinates, d \in Directions :
          (/\ move_is_valid(p, c, d, check_win_conditions, error_messages).ret = "True"
           /\ Len(board_history) >= 2
           /\ simulate(c, d).board = board_history[Len(board_history) - 1])
          => LET r == make_move(p, c, d)
             IN  r.ret = "False" /\ Top(r.error_messages) = MsgCircular

W_C3_CircularRejected ==
    /\ ret = "False"
    /\ error_messages = <<MsgCircular>>
    /\ Len(board_history) >= 2

\* C4: lazy win detection.  Right after the committed move that brings the
\* mover to 7 captured reds or 8 captured opposing marbles there is no
\* winner, and the next make_move, by either player, at any coordinate, in
\* any of the four directions, sets the winner to that player and returns
\* False.
C4_LazyWin ==
    /\ ret = "True" => winner = None
    /\ CallReady => \A p \in Players :
          (ReachedWin(p) /\ winner = None)
          => \A q \in Players, c \in Coordinates, d \in FourDirections :
                LET r == make_move(q, c, d)
                IN  r.winner = p /\ r.ret = "False"

W_C4_WinnerSetByNextCall ==
    \E p \in Players :
        /\ ReachedWin(p)
        /\ winner = p
        /\ ret = "False"
        /\ error_messages = <<MsgWon(p)>>

\* C5: the winner is terminal.  Once a winner is set every step keeps the
\* winner, the last make_move has returned False, and the board, the
\* history, the turn pointer and the captured lists do not change.
C5_WinnerTerminal ==
    [][winner # None => winner' = winner /\ ret' = "False" /\ UNCHANGED game]_vars

W_C5_CallAfterWin ==
    /\ winner # None
    /\ ret = "False"
    /\ error_messages # <<>>
    /\ Top(error_messages) \notin {MsgWon(PlayerA), MsgWon(PlayerB)}

\* C6: push feasibility accepts everything the rule allows.  A move that
\* passes checks 1-6 is rejected with the own-marble message only if the
\* far-end cell holds the mover's colour and the segment from the origin to
\* the far end has no Empty cell; if the segment has an Empty cell and the
\* origin is on the starting edge or has an Empty cell behind it, the
\* validator accepts the move.
C6_PushFeasibility ==
    CallReady => \A p \in Players, c \in InRange, d \in FourDirections :
        PassesChecks1to6(p, c, d)
        => LET v == move_is_valid(p, c, d, check_win_conditions, error_messages)
           IN  /\ (v.ret = "False" /\ Top(v.errs) = MsgCantPush(MsgOwn))
                    => EjectsOwn(p, c, d)
               /\ (/\ SegmentHasEmpty(c, d)
                   /\ OnStartingEdge(c, d) \/ get_marble(Behind(c, d)) = "X")
                    => v.ret = "True"

\* C7: a move that passes checks 1-6 and would eject the mover's own colour
\* is rejected by make_move with the own-marble message.
C7_OwnMarbleNeverEjected ==
    CallReady => \A p \in Players, c \in InRange, d \in FourDirections :
        (PassesChecks1to6(p, c, d) /\ EjectsOwn(p, c, d))
        => LET r == make_move(p, c, d)
           IN  r.ret = "False" /\ Top(r.error_messages) = MsgCantPush(MsgOwn)

W_C7_OwnMarbleRejected ==
    /\ ret = "False"
    /\ error_messages = <<MsgCantPush(MsgOwn)>>
    /\ \E p \in Players, c \in InRange, d \in FourDirections :
          PassesChecks1to6(p, c, d) /\ EjectsOwn(p, c, d)

\* C8: a move whose origin is not on the edge the push starts from and whose
\* cell behind the origin is not Empty is rejected by make_move.
C8_BlockedPushRejected ==
    CallReady => \A p \in Names, c \in InRange, d \in FourDirections :
        (~OnStartingEdge(c, d) /\ get_marble(Behind(c, d)) # "X")
        => make_move(p, c, d).ret = "False"

W_C8_BlockedRejected ==
    /\ ret = "False"
    /\ error_messages = <<MsgCantPush(MsgBlocked)>>

\* C9: a direction string other than L, R, F, B is an ordinary rejected
\* move: make_move returns False with the invalid-direction message on the
\* error stack, raises nothing and changes no game state.
C9_InvalidDirectionRejected ==
    CallReady => \A p \in Names, c \in Coordinates, d \in OtherDirections :
        LET r == make_move(p, c, d)
        IN  /\ r.ret = "False"
            /\ Top(r.error_messages) = MsgDirection
            /\ <<r.board, r.board_history, r.current_turn, r.captured>> = game

\* C10: the length of the history is the number of make_move calls that
\* returned True.
C10_HistoryCountsCommits == Len(board_history) = true_count

W_C10_CommitsAndRejections ==
    /\ true_count >= 2
    /\ Len(board_history) = true_count
    /\ ret = "False"

\* C11: for every line of 7 cells and every insert position 0..6,
\* _push_right returns a line of 7 cells; when it returns None every colour
\* occurs in it as often as in the input line, and when it returns a marble
\* that colour occurs once less and the other colours as often.
CountIn(line, color) == Cardinality({i \in 1..Len(line) : line[i] = color})

C11_PushRightConserves ==
    push_result # <<>>
    => LET out == push_result[1]
       IN  /\ Len(out.list) = 7
           /\ out.captured \in {None, "W", "B", "R"}
           /\ \A color \in {"W", "B", "R"} :
                 CountIn(out.list, color) =
                    CountIn(push_list, color) - (IF out.captured = color THEN 1 ELSE 0)

W_C11_Ejected ==
    /\ push_result # <<>>
    /\ push_result[1].captured = "R"
    /\ push_position = 3
    /\ CountIn(push_list, "R") = 2

\* C12: no starting player is enforced.  While no move is committed the
\* turn pointer is unset, whatever was rejected, and a move of either player
\* from a marble of that player that the push test allows is accepted; once
\* a move is committed the turn pointer is one of the two players.
C12_NoStartingPlayer ==
    /\ true_count = 0 => current_turn = None
    /\ true_count > 0 => current_turn \in Players
    /\ (true_count = 0 /\ CallReady)
       => \A p \in Players, c \in InRange, d \in FourDirections :
             (/\ get_marble(c) = get_color(p)
              /\ is_valid_push(c, d, get_color(p), <<>>).ret = "True")
             => make_move(p, c, d).ret = "True"

W_C12_SecondPlayerStarted ==
    /\ true_count = 1
    /\ mover = get_player_b
    /\ current_turn = get_player_a

\* the number of cells of board b that hold color
CountOnBoard(b, color) ==
    Cardinality({x \in InRange : b[x[1] + 1][x[2] + 1] = color})

\* C13: a committed move ejects a marble exactly when the cells from the
\* origin to the far end of the line hold no Empty cell.  The ejected marble
\* is the one at the far end; it is appended to the mover's captured marbles
\* and the opponent's are unchanged.  When the cells hold an Empty cell,
\* neither player's captured marbles change.
C13_EjectsIffNoEmpty ==
    CallReady
    => \A p \in Players, c \in InRange, d \in FourDirections :
          LET r == make_move(p, c, d)
          IN  r.ret = "True"
              => IF SegmentHasEmpty(c, d)
                 THEN r.captured = captured
                 ELSE /\ r.captured[p] =
                            Append(captured[p], get_marble(FarEnd(c, d)))
                      /\ r.captured[Other(p)] = captured[Other(p)]

W_C13_RedEjected ==
    /\ ret = "True"
    /\ Len(board_history) >= 2
    /\ CountOnBoard(board_history[Len(board_history) - 1], "R") =
          CountOnBoard(board, "R") + 1
    /\ Len(captured[mover]) >= 1
    /\ Top(captured[mover]) = "R"
    /\ captured[Other(mover)] = <<>>

\* the cell next to the origin in the push direction
Ahead(c, d) ==
    IF d = <<"L">> THEN <<c[1], c[2] - 1>>
    ELSE IF d = <<"R">> THEN <<c[1], c[2] + 1>>
    ELSE IF d = <<"F">> THEN <<c[1] - 1, c[2]>>
    ELSE <<c[1] + 1, c[2]>>

\* C14: after a committed move by P from (r, c) the cell (r, c) is Empty and
\* the cell next to it in the push direction holds P's colour: (r, c-1) for
\* Left, (r, c+1) for Right, (r-1, c) for Forward, (r+1, c) for Backward.
C14_OriginEmptiedMarbleAdvanced ==
    CallReady
    => \A p \in Players, c \in InRange, d \in FourDirections :
          LET r == make_move(p, c, d)
          IN  r.ret = "True"
              => /\ r.board[c[1] + 1][c[2] + 1] = "X"
                 /\ Ahead(c, d) \in InRange
                 /\ r.board[Ahead(c, d)[1] + 1][Ahead(c, d)[2] + 1] = get_color(p)

W_C14_ForwardMoveCommitted ==
    /\ ret = "True"
    /\ mover = PlayerB
    /\ scenario = "start"
    /\ true_count = 1
    /\ board[7][7] = "X"
    /\ board[6][7] = "W"
    /\ board[5][7] = "W"

\* x lies on the line a push from c in direction d acts on
OnLine(c, d, x) ==
    IF d \in {<<"L">>, <<"R">>} THEN x[1] = c[1] ELSE x[2] = c[2]

\* the number of steps from c to x in direction d, for x on the line
Steps(c, d, x) ==
    IF d = <<"L">> THEN c[2] - x[2]
    ELSE IF d = <<"R">> THEN x[2] - c[2]
    ELSE IF d = <<"F">> THEN c[1] - x[1]
    ELSE x[1] - c[1]

\* x is past the first Empty cell met from c in direction d
BeyondFirstEmpty(c, d, x) ==
    /\ OnLine(c, d, x)
    /\ \E e \in Segment(c, d) :
          /\ get_marble(e) = "X"
          /\ Steps(c, d, e) < Steps(c, d, x)

\* C15: a committed Left or Right move changes cells of row r only and a
\* committed Forward or Backward move cells of column c only; the cells
\* behind the origin and the cells beyond the first Empty cell in the push
\* direction keep their values.
C15_OnlyPushedCellsChange ==
    CallReady
    => \A p \in Players, c \in InRange, d \in FourDirections :
          LET r == make_move(p, c, d)
          IN  r.ret = "True"
              => \A x \in InRange :
                    (\/ ~OnLine(c, d, x)
                     \/ Steps(c, d, x) < 0
                     \/ BeyondFirstEmpty(c, d, x))
                    => r.board[x[1] + 1][x[2] + 1] = get_marble(x)

W_C15_PushStoppedAtEmpty ==
    /\ ret = "True"
    /\ scenario = "start"
    /\ true_count = 1
    /\ mover = PlayerB
    /\ board[2] = <<"X", "W", "W", "R", "X", "B", "B">>
    /\ \A i \in (1..Size) \ {2} : board[i] = InitialBoard[i]

\* C16: starting from the initial layout, no second committed move leaves
\* the board identical to the initial layout: the board stored by the first
\* commit and the board stored by the second both differ from it, and in a
\* game with one committed move no call that returns True produces it.
C16_SecondMoveNeverRestoresInitial ==
    /\ Len(board_history) >= 1 => board_history[1] # InitialBoard
    /\ Len(board_history) >= 2 => board_history[2] # InitialBoard
    /\ (Len(board_history) = 1 /\ CallReady)
       => \A p \in Players, c \in InRange, d \in FourDirections :
             LET r == make_move(p, c, d)
             IN  r.ret = "True" => r.board # InitialBoard

W_C16_SecondMoveCommitted ==
    /\ true_count = 2
    /\ Len(board_history) = 2
    /\ ret = "True"
    /\ mover = PlayerB
    /\ board = board_history[2]
    /\ board_history[1] # board

\* the marbles of a colour at the start of the game
InitialCount(color) == CountOnBoard(InitialBoard, color)

\* C17: marbles are conserved.  For each colour the number on the board plus
\* the number in both players' captured marbles equals the initial number:
\* 8 White, 8 Black, 13 Red.  The board is always 7 x 7.
C17_MarblesConserved ==
    /\ InitialCount("W") = 8 /\ InitialCount("B") = 8 /\ InitialCount("R") = 13
    /\ \A color \in {"W", "B", "R"} :
          CountOnBoard(board, color)
             + get_captured_count(captured[PlayerA], color)
             + get_captured_count(captured[PlayerB], color) = InitialCount(color)
    /\ Len(board) = 7
    /\ \A i \in 1..Len(board) : Len(board[i]) = 7
    /\ \A x \in InRange : get_marble(x) \in Cells

W_C17_ThreeRedsOffTheBoard ==
    /\ CountOnBoard(board, "R") = 10
    /\ get_captured_count(captured[PlayerB], "R") = 3
    /\ ret = "True"

\* C18: no player's captured marbles contain a marble of that player's own
\* colour, now and after any call the caller can make.
C18_NoOwnColourCaptured ==
    /\ \A p \in Players : get_captured_count(captured[p], get_color(p)) = 0
    /\ CallReady
       => \A p \in Players, c \in InRange, d \in FourDirections :
             \A q \in Players :
                get_captured_count(make_move(p, c, d).captured[q], get_color(q)) = 0

W_C18_OwnMarbleAtTheFarEnd ==
    /\ CallReady
    /\ get_captured_count(captured[PlayerB], "R") >= 1
    /\ \E c \in InRange, d \in FourDirections :
          /\ PassesChecks1to6(PlayerB, c, d)
          /\ EjectsOwn(PlayerB, c, d)
          /\ OnStartingEdge(c, d) \/ get_marble(Behind(c, d)) = "X"

\* C19: win thresholds are never overshot or shared.  Each player's captured
\* Red count is at most 7 and captured opposing-colour count at most 8, and
\* at most one player passes the test of the win evaluation; the same holds
\* of the captured marbles left by any call the caller can make.
ThresholdsKept(cap) ==
    /\ \A p \in Players :
          /\ get_captured_count(cap[p], "R") <= 7
          /\ get_captured_count(cap[p], get_color(Other(p))) <= 8
    /\ ~(wins(cap[PlayerA]) /\ wins(cap[PlayerB]))

C19_ThresholdsNeverOvershot ==
    /\ ThresholdsKept(captured)
    /\ CallReady
       => \A p \in Players, c \in InRange, d \in FourDirections :
             ThresholdsKept(make_move(p, c, d).captured)

W_C19_EightOpposingMarbles ==
    /\ CallReady
    /\ get_captured_count(captured[PlayerB], "B") = 8
    /\ winner = PlayerB
    /\ ret = "False"
    /\ CountOnBoard(board, "B") = 0

\* the live board is the last snapshot of the history h, or the initial
\* layout when h is empty
TracksLiveBoard(h, b) ==
    IF h = <<>> THEN b = InitialBoard ELSE h[Len(h)] = b

\* C20: the history is append-only and tracks the live board.  No step alters
\* or removes a snapshot already in the history, and whenever the history is
\* non-empty its last snapshot equals the live board cell for cell; with an
\* empty history the live board is the initial layout.
C20_HistoryAppendOnly ==
    [][/\ Len(board_history') >= Len(board_history)
       /\ SubSeq(board_history', 1, Len(board_history)) = board_history
       /\ TracksLiveBoard(board_history, board)
       /\ TracksLiveBoard(board_history', board')]_vars

W_C20_RejectedAfterFourSnapshots ==
    /\ Len(board_history) = 4
    /\ ret = "False"
    /\ error_messages # <<>>
    /\ board = board_history[4]
    /\ board_history[3] # board_history[4]
    /\ board_history[2] # board_history[3]

====
